---- MODULE Spec2Model ----
(***************************************************************************)
(* The "replicate resync" (alias "reset") command of mc,                   *)
(* cmd/replicate-reset.go: argument validation, parsing of --older-than,   *)
(* the single call of client.ResetReplication and the rendering of its     *)
(* result.                                                                 *)
(*                                                                         *)
(* A string is a sequence of one-character strings, so that the duration   *)
(* parser and strings.ContainsAny work on the characters the user typed.   *)
(***************************************************************************)
EXTENDS Integers, Sequences, FiniteSets, TLC

VARIABLES cliCtx, globalJSON, pc, exited, exitCode, client, days, olderThan,
          resetCalls, rinfo, msg, printed

vars == <<cliCtx, globalJSON, pc, exited, exitCode, client, days, olderThan,
          resetCalls, rinfo, msg, printed>>

----------------------------------------------------------------------------
(* Bounds of the model *)

\* longest --older-than value, in characters
MaxLen == 3
\* most positional arguments on the command line
MaxArgs == 2
\* most targets in the result of the remote call
MaxTargets == 2

\* The characters an --older-than value is made of: four digits, the
\* decimal point, the sign, the units h (no day/week/year marker), d, w, y
\* and x, a letter that is no unit.
Digits == {"0", "2", "3", "6"}
Alphabet == Digits \cup {".", "-", "h", "d", "w", "y", "x"}

RECURSIVE StringsUpTo(_)
StringsUpTo(n) ==
    IF n = 0 THEN {<<>>}
    ELSE LET shorter == StringsUpTo(n - 1)
         IN shorter \cup {Append(s, c) : s \in shorter, c \in Alphabet}

URLs == {"myminio/mybucket"}
Arns == {"", "arn:minio:replication::xxx:mybucket"}
ResetIDs == {"abc123", "def456"}

RECURSIVE ArgLists(_)
ArgLists(n) ==
    IF n = 0 THEN {<<>>}
    ELSE LET shorter == ArgLists(n - 1)
         IN shorter \cup {Append(a, u) : a \in shorter, u \in URLs}

----------------------------------------------------------------------------
(* maze.io/x/duration: Duration, ParseDuration, Days.                      *)
(*                                                                         *)
(* A Duration is an int64 count of nanoseconds.  The model holds its       *)
(* magnitude exactly as whole hours h and a remainder t of less than an    *)
(* hour counted in 10^-MaxLen hours (no string of MaxLen characters has    *)
(* more fraction digits than that), and its sign as neg.                   *)

RECURSIVE Pow10(_)
Pow10(n) == IF n = 0 THEN 1 ELSE 10 * Pow10(n - 1)

TicksPerHour == Pow10(MaxLen)

\* (1<<63 - 1) nanoseconds is 2562047 whole hours (and 47m16.854775807s)
MaxInt64Hours == 2562047

ZeroDuration == [neg |-> FALSE, h |-> 0, t |-> 0]

\* unitMap of the parser, in hours; the units shorter than an hour need
\* characters outside Alphabet
unitMap == (<<"h">> :> 1) @@ (<<"d">> :> 24) @@ (<<"w">> :> 168) @@ (<<"y">> :> 8760)

DigitVal(c) == CASE c = "0" -> 0 [] c = "2" -> 2 [] c = "3" -> 3 [] c = "6" -> 6

IsDigit(c) == c \in Digits

\* leadingInt consumes the leading [0-9]* of s: x is its value, rem the rest.
\* (Its overflow test needs 19 digits.)
RECURSIVE leadingIntFrom(_, _)
leadingIntFrom(s, x) ==
    IF s # <<>> /\ IsDigit(Head(s))
    THEN leadingIntFrom(Tail(s), x * 10 + DigitVal(Head(s)))
    ELSE [x |-> x, rem |-> s]

leadingInt(s) == leadingIntFrom(s, 0)

\* leadingFraction consumes the leading [0-9]* of s: the value is x/scale.
RECURSIVE leadingFractionFrom(_, _, _)
leadingFractionFrom(s, x, scale) ==
    IF s # <<>> /\ IsDigit(Head(s))
    THEN leadingFractionFrom(Tail(s), x * 10 + DigitVal(Head(s)), scale * 10)
    ELSE [x |-> x, scale |-> scale, rem |-> s]

leadingFraction(s) == leadingFractionFrom(s, 0, 1)

\* the unit runs up to the next '.' or digit
RECURSIVE unitLen(_)
unitLen(s) ==
    IF s = <<>> \/ Head(s) = "." \/ IsDigit(Head(s)) THEN 0
    ELSE 1 + unitLen(Tail(s))

Nil == <<>>
ErrInvalidDuration == <<"time: invalid duration">>

\* v whole units and f/scale of a unit of u hours, as hours and ticks
UnitAmount(v, f, scale, u) ==
    LET ticks == f * (TicksPerHour \div scale) * u
    IN [h |-> v * u + ticks \div TicksPerHour, t |-> ticks % TicksPerHour]

AddAmount(a, b) ==
    [h |-> a.h + b.h + (a.t + b.t) \div TicksPerHour,
     t |-> (a.t + b.t) % TicksPerHour]

\* the loop of ParseDuration over ([0-9]*(\.[0-9]*)?[a-z]+)+ ; d is the sum
\* so far.  The sum overflows int64 when it passes MaxInt64Hours.
RECURSIVE parseComponents(_, _)
parseComponents(s, d) ==
    IF s = <<>> THEN [d |-> d, err |-> Nil]
    ELSE IF ~(Head(s) = "." \/ IsDigit(Head(s)))
    THEN [d |-> ZeroDuration, err |-> ErrInvalidDuration]
    ELSE
      LET li     == leadingInt(s)
          pre    == Len(li.rem) # Len(s)
          hasDot == li.rem # <<>> /\ Head(li.rem) = "."
          lf     == IF hasDot THEN leadingFraction(Tail(li.rem))
                    ELSE [x |-> 0, scale |-> 1, rem |-> li.rem]
          post   == hasDot /\ Len(lf.rem) # Len(li.rem) - 1
          i      == unitLen(lf.rem)
          u      == SubSeq(lf.rem, 1, i)
          rest   == SubSeq(lf.rem, i + 1, Len(lf.rem))
      IN IF ~pre /\ ~post
         THEN [d |-> ZeroDuration, err |-> ErrInvalidDuration]
         ELSE IF i = 0
         THEN [d |-> ZeroDuration, err |-> <<"time: missing unit in duration">>]
         ELSE IF u \notin DOMAIN unitMap
         THEN [d |-> ZeroDuration, err |-> <<"time: unknown unit in duration">>]
         ELSE IF li.x > MaxInt64Hours \div unitMap[u]
         THEN [d |-> ZeroDuration, err |-> ErrInvalidDuration]
         ELSE LET sum == AddAmount(d, UnitAmount(li.x, lf.x, lf.scale, unitMap[u]))
              IN IF sum.h > MaxInt64Hours
                 THEN [d |-> ZeroDuration, err |-> ErrInvalidDuration]
                 ELSE parseComponents(rest, [neg |-> d.neg, h |-> sum.h, t |-> sum.t])

\* ParseDuration: [-+]?([0-9]*(\.[0-9]*)?[a-z]+)+ , and "0" alone is zero
ParseDuration(s) ==
    LET neg  == s # <<>> /\ Head(s) = "-"
        body == IF neg THEN Tail(s) ELSE s
    IN IF body = <<"0">> THEN [d |-> ZeroDuration, err |-> Nil]
       ELSE IF body = <<>> THEN [d |-> ZeroDuration, err |-> ErrInvalidDuration]
       ELSE LET r == parseComponents(body, ZeroDuration)
            IN IF r.err # Nil THEN r
               ELSE [d |-> [neg |-> neg /\ (r.d.h # 0 \/ r.d.t # 0),
                            h |-> r.d.h, t |-> r.d.t],
                     err |-> Nil]

\* days == 0
IsZero(d) == d.h = 0 /\ d.t = 0

\* Duration.Days: the duration as a floating-point number of days, held as
\* its whole days and the rest of less than a day
Days(d) == [neg |-> d.neg, whole |-> d.h \div 24, restH |-> d.h % 24, restT |-> d.t]

----------------------------------------------------------------------------
(* Helpers of the repository and of the Go library that the command calls *)

\* probe.NewError(e): nil for a nil error, else the error wrapped
NewError(e) == IF e = Nil THEN Nil ELSE <<"probe.Error">> \o e

\* (*probe.Error).Trace: nil stays nil
Trace(err) == err

\* fatalIf(err, msg): TRUE when the call ends the process, which it does
\* exactly when err is not nil.  JSON() calls fatalIf(probe.NewError(e), ...)
\* after every marshalling and mainReplicateReset calls fatalIf(err, ...)
\* after every newClient and ResetReplication: with a nil error these calls
\* return, or no run would ever print a result.
fatalIf(err) == err # Nil

\* strings.ContainsAny(s, chars)
ContainsAny(s, chars) == \E i \in 1..Len(s) : s[i] \in chars

DurationOfFloat_Rounded(f) ==
    LET up == IF f.restH >= 12 THEN 1 ELSE 0
    IN IF f.neg THEN 0 - (f.whole + up) ELSE f.whole + up

\* time.Duration(f) of a float64 f: the fraction is dropped (toward zero)
DurationOfFloat(f) == IF f.neg THEN 0 - f.whole ELSE f.whole

----------------------------------------------------------------------------
(* checkReplicateResetSyntax: "usage" for cli.ShowCommandHelpAndExit,      *)
(* "fatal" for fatal(...), "ok" when the function returns                  *)

checkReplicateResetSyntax_AtLeastOneArg(ctx) ==
    IF Len(ctx.args) < 1 THEN "usage"
    ELSE IF ctx.remoteBucket = "" THEN "fatal"
    ELSE "ok"

checkReplicateResetSyntax_NoBucketCheck(ctx) ==
    IF Len(ctx.args) # 1 THEN "usage" ELSE "ok"

checkReplicateResetSyntax(ctx) ==
    IF Len(ctx.args) # 1 THEN "usage"
    ELSE IF ctx.remoteBucket = "" THEN "fatal"
    ELSE "ok"

----------------------------------------------------------------------------
(* mainReplicateReset, lines 119-133: olderThanStr, days, olderThan.       *)
(* fatal is TRUE when one of the two fatalIf calls ends the process.       *)

olderThanOf(ctx) ==
    IF ctx.olderThanSet /\ ctx.olderThan # <<>>
    THEN LET p == ParseDuration(ctx.olderThan)
             e == p.err
         IN IF (e # Nil \/ ~ContainsAny(ctx.olderThan, {"d", "w", "y"}))
                /\ fatalIf(NewError(e))
            THEN [fatal |-> TRUE, days |-> p.d, olderThan |-> 0]
            ELSE IF IsZero(p.d) /\ fatalIf(NewError(e))
            THEN [fatal |-> TRUE, days |-> p.d, olderThan |-> 0]
            ELSE [fatal |-> FALSE, days |-> p.d,
                  olderThan |-> DurationOfFloat(Days(p.d))]
    ELSE [fatal |-> FALSE, days |-> ZeroDuration, olderThan |-> 0]

----------------------------------------------------------------------------
(* replicateResetMessage and its two renderings *)

NoTargets == [Targets |-> <<>>]
NoMessage == [Op |-> "", URL |-> "", ResyncTargetsInfo |-> NoTargets,
              Status |-> "", TargetArn |-> ""]

\* the struct literal of lines 137-141
resultMessage_WithArn(ctx, ri) ==
    [Op |-> "status", URL |-> ctx.args[1], ResyncTargetsInfo |-> ri,
     Status |-> "", TargetArn |-> ctx.remoteBucket]

resultMessage(ctx, ri) ==
    [Op |-> "status", URL |-> ctx.args[1], ResyncTargetsInfo |-> ri,
     Status |-> "", TargetArn |-> ""]

\* console.Colorize(tag, fmt.Sprintf(...)): the tag and the pieces of the line
String_AnyTarget(r) ==
    IF Len(r.ResyncTargetsInfo.Targets) >= 1
    THEN [tag |-> "replicateResetMessage",
          parts |-> <<"Replication reset started for ", r.URL, " with ID ",
                      r.ResyncTargetsInfo.Targets[1].ResetID>>]
    ELSE [tag |-> "replicateResetMessage",
          parts |-> <<"Replication reset started for ", r.URL>>]

String(r) ==
    IF Len(r.ResyncTargetsInfo.Targets) = 1
    THEN [tag |-> "replicateResetMessage",
          parts |-> <<"Replication reset started for ", r.URL, " with ID ",
                      r.ResyncTargetsInfo.Targets[1].ResetID>>]
    ELSE [tag |-> "replicateResetMessage",
          parts |-> <<"Replication reset started for ", r.URL>>]

\* json.MarshalIndent of a value: an object is the sequence of its members
\* in field order, an array the sequence of its elements
MarshalTarget(t) == <<[key |-> "arn", val |-> t.Arn], [key |-> "resetid", val |-> t.ResetID]>>

\* replication.ResyncTargetsInfo: Targets is tagged `json:"target,omitempty"`
MarshalResyncTargetsInfo(ri) ==
    IF Len(ri.Targets) = 0 THEN <<>>
    ELSE <<[key |-> "target",
            val |-> [i \in 1..Len(ri.Targets) |-> MarshalTarget(ri.Targets[i])]]>>

MarshalIndent(r) ==
    <<[key |-> "op", val |-> r.Op],
      [key |-> "url", val |-> r.URL],
      [key |-> "resyncInfo", val |-> MarshalResyncTargetsInfo(r.ResyncTargetsInfo)],
      [key |-> "status", val |-> r.Status],
      [key |-> "targetArn", val |-> r.TargetArn]>>

\* JSON has a value receiver: out is the document, receiver the caller's
\* message after the call
JSON_NoStatus(r) == [out |-> MarshalIndent(r), receiver |-> r]

JSON(r) ==
    LET copy == [r EXCEPT !.Status = "success"]
    IN [out |-> MarshalIndent(copy), receiver |-> r]

NoOutput == [mode |-> "none", text |-> <<>>, json |-> <<>>]

\* printMsg(msg): msg.JSON() under --json, msg.String() otherwise
printMsg(r, asJSON) ==
    IF asJSON
    THEN [printed |-> [mode |-> "json", text |-> <<>>, json |-> JSON(r).out],
          receiver |-> JSON(r).receiver]
    ELSE [printed |-> [mode |-> "text", text |-> String(r).parts, json |-> <<>>],
          receiver |-> r]

----------------------------------------------------------------------------
(* The state machine: one run of the command *)

Contexts ==
    [args : ArgLists(MaxArgs), olderThanSet : {TRUE},
     olderThan : StringsUpTo(MaxLen), remoteBucket : Arns]
    \cup
    [args : ArgLists(MaxArgs), olderThanSet : {FALSE},
     olderThan : {<<>>}, remoteBucket : Arns]

RECURSIVE TargetLists(_)
TargetLists(n) ==
    IF n = 0 THEN {<<>>}
    ELSE LET shorter == TargetLists(n - 1)
         IN shorter \cup
            {Append(l, [Arn |-> a, ResetID |-> id]) :
                l \in shorter, a \in Arns \ {""}, id \in ResetIDs}

\* what client.ResetReplication may return
ResetResults ==
    {[rinfo |-> [Targets |-> l], err |-> Nil] : l \in TargetLists(MaxTargets)}
    \cup {[rinfo |-> NoTargets, err |-> <<"Unable to reset replication">>]}

Init ==
    /\ cliCtx \in Contexts
    /\ globalJSON \in BOOLEAN
    /\ pc = "checkSyntax"
    /\ exited = "no"
    /\ exitCode = 0
    /\ client = FALSE
    /\ days = ZeroDuration
    /\ olderThan = 0
    /\ resetCalls = <<>>
    /\ rinfo = NoTargets
    /\ msg = NoMessage
    /\ printed = NoOutput

\* the process ends: "usage" and "fatal" with exit code 1, "return" with 0
Exit(kind) ==
    /\ pc' = "exited"
    /\ exited' = kind
    /\ exitCode' = IF kind = "return" THEN 0 ELSE 1

\* line 111
CheckSyntax ==
    /\ pc = "checkSyntax"
    /\ LET r == checkReplicateResetSyntax(cliCtx)
       IN IF r = "ok"
          THEN pc' = "newClient" /\ UNCHANGED <<exited, exitCode>>
          ELSE Exit(r)
    /\ UNCHANGED <<cliCtx, globalJSON, client, days, olderThan, resetCalls,
                   rinfo, msg, printed>>

\* lines 114-118: newClient either fails, which is fatal, or gives a client
NewClient ==
    /\ pc = "newClient"
    /\ \E err \in {Nil, <<"Unable to initialize connection.">>} :
          IF fatalIf(err)
          THEN Exit("fatal") /\ UNCHANGED client
          ELSE /\ client' = TRUE
               /\ pc' = "olderThan"
               /\ UNCHANGED <<exited, exitCode>>
    /\ UNCHANGED <<cliCtx, globalJSON, days, olderThan, resetCalls, rinfo,
                   msg, printed>>

\* lines 119-133
ParseOlderThan ==
    /\ pc = "olderThan"
    /\ LET r == olderThanOf(cliCtx)
       IN /\ days' = r.days
          /\ IF r.fatal
             THEN Exit("fatal") /\ UNCHANGED olderThan
             ELSE /\ olderThan' = r.olderThan
                  /\ pc' = "resetReplication"
                  /\ UNCHANGED <<exited, exitCode>>
    /\ UNCHANGED <<cliCtx, globalJSON, client, resetCalls, rinfo, msg, printed>>

ResetReplication_ErrorIgnored ==
    /\ pc = "resetReplication"
    /\ \E res \in ResetResults :
          /\ resetCalls' = Append(resetCalls,
                 [olderThan |-> olderThan, tgtArn |-> cliCtx.remoteBucket,
                  err |-> res.err])
          /\ rinfo' = res.rinfo
          /\ pc' = "printMsg"
          /\ UNCHANGED <<exited, exitCode>>
    /\ UNCHANGED <<cliCtx, globalJSON, client, days, olderThan, msg, printed>>

\* lines 135-136: the remote call, and fatalIf on its error
ResetReplication ==
    /\ pc = "resetReplication"
    /\ \E res \in ResetResults :
          /\ resetCalls' = Append(resetCalls,
                 [olderThan |-> olderThan, tgtArn |-> cliCtx.remoteBucket,
                  err |-> res.err])
          /\ rinfo' = res.rinfo
          /\ IF fatalIf(Trace(res.err))
             THEN Exit("fatal")
             ELSE pc' = "printMsg" /\ UNCHANGED <<exited, exitCode>>
    /\ UNCHANGED <<cliCtx, globalJSON, client, days, olderThan, msg, printed>>

\* lines 137-142: print the message and return nil
PrintMsg ==
    /\ pc = "printMsg"
    /\ LET r == printMsg(resultMessage(cliCtx, rinfo), globalJSON)
       IN /\ printed' = r.printed
          /\ msg' = r.receiver
    /\ Exit("return")
    /\ UNCHANGED <<cliCtx, globalJSON, client, days, olderThan, resetCalls, rinfo>>

Next == CheckSyntax \/ NewClient \/ ParseOlderThan \/ ResetReplication \/ PrintMsg

Spec == Init /\ [][Next]_vars

----------------------------------------------------------------------------
(* Properties *)

\* --older-than was supplied with a non-empty value
OlderThanGiven == cliCtx.olderThanSet /\ cliCtx.olderThan # <<>>

\* what the duration parser makes of the value of --older-than
Parsed == ParseDuration(cliCtx.olderThan)

\* the process has not ended normally: it runs or it ended with an error
NotReturned == exited # "return" /\ (pc = "exited" => exitCode # 0)

\* a member of a JSON object
Field(doc, k) == doc[CHOOSE i \in 1..Len(doc) : doc[i].key = k].val

HasField(doc, k) == \E i \in 1..Len(doc) : doc[i].key = k

\* the targets a reader of the JSON document finds in its "resyncInfo"
DecodedTargets(doc) ==
    LET ri == Field(doc, "resyncInfo")
    IN IF HasField(ri, "target")
       THEN LET arr == Field(ri, "target")
            IN [i \in 1..Len(arr) |->
                   [Arn |-> Field(arr[i], "arn"), ResetID |-> Field(arr[i], "resetid")]]
       ELSE <<>>

Abs(n) == IF n < 0 THEN 0 - n ELSE n

\* C1: when --older-than is supplied with a value that parses to a
\* zero-length duration, the command ends with a fatal error and the remote
\* reset operation is never called.
C1_ZeroDurationIsFatal ==
    (cliCtx.olderThanSet /\ Parsed.err = Nil /\ IsZero(Parsed.d))
        => (resetCalls = <<>> /\ NotReturned)

\* C2: when --older-than has a non-empty value that the parser rejects or
\* that holds none of the characters d, w, y, the command ends with a fatal
\* error and the remote reset operation is never called.
C2_UnparsedOrUnitlessIsFatal ==
    (OlderThanGiven
       /\ (Parsed.err # Nil \/ ~ContainsAny(cliCtx.olderThan, {"d", "w", "y"})))
        => (resetCalls = <<>> /\ NotReturned)

\* C3: when the remote reset operation is called and --older-than was
\* supplied with a non-empty value, the age filter passed is a strictly
\* positive number of days.
C3_ExplicitFilterIsPositive ==
    \A i \in 1..Len(resetCalls) :
        OlderThanGiven => resetCalls[i].olderThan > 0

\* C4: with zero or with two or more positional arguments the command exits
\* with a usage error (exit code not 0), constructs no client and never
\* calls the remote reset operation, whatever the flags are.
C4_WrongArgCountIsUsageError ==
    Len(cliCtx.args) # 1 =>
        /\ ~client
        /\ resetCalls = <<>>
        /\ pc \in {"checkSyntax", "exited"}
        /\ pc = "exited" => (exited = "usage" /\ exitCode # 0)

C4_Witness ==
    /\ Len(cliCtx.args) = 2
    /\ cliCtx.remoteBucket # ""
    /\ cliCtx.olderThan = <<"6", "0", "d">>
    /\ exited = "usage"

\* C5: with one positional argument and an empty --remote-bucket the command
\* ends fatally before a client is constructed and before the remote reset
\* operation is called; every remote call carries a non-empty target
\* identifier.
C5_RemoteBucketRequired ==
    /\ (Len(cliCtx.args) = 1 /\ cliCtx.remoteBucket = "") =>
          /\ ~client
          /\ resetCalls = <<>>
          /\ pc \in {"checkSyntax", "exited"}
          /\ pc = "exited" => (exited = "fatal" /\ exitCode # 0)
    /\ \A i \in 1..Len(resetCalls) : resetCalls[i].tgtArn # ""

C5_Witness ==
    /\ Len(cliCtx.args) = 1
    /\ cliCtx.remoteBucket = ""
    /\ cliCtx.olderThan = <<"2", "w">>
    /\ exited = "fatal"

\* C6: the age filter passed to the remote reset operation for an accepted
\* --older-than value is the parsed duration divided by 24 hours with the
\* fraction dropped toward zero: n days with |n| days <= |duration| <
\* |n| + 1 days and the sign of the duration; "60d" passes 60, "2w" passes
\* 14 and "36h", a day and a half, passes 1.
C6_FilterIsWholeDays ==
    \A i \in 1..Len(resetCalls) :
        OlderThanGiven =>
            LET n == resetCalls[i].olderThan
            IN /\ Parsed.err = Nil
               /\ Abs(n) * 24 <= Parsed.d.h
               /\ Parsed.d.h < (Abs(n) + 1) * 24
               /\ n < 0 => Parsed.d.neg
               /\ n > 0 => ~Parsed.d.neg
               /\ cliCtx.olderThan = <<"6", "0", "d">> => n = 60
               /\ cliCtx.olderThan = <<"2", "w">> => n = 14
               /\ cliCtx.olderThan = <<"3", "6", "h">> => n = 1

C6_Witness ==
    /\ cliCtx.olderThan = <<".", "6", "w">>
    /\ Len(resetCalls) = 1
    /\ resetCalls[1].olderThan = 4

\* C7: the remote reset operation is called at most once; when the call
\* returns an error the command ends fatally (exit code not 0) with no
\* second call and nothing printed; a result is printed only after the call
\* returned without error.
C7_OneCallFatalOnError ==
    /\ Len(resetCalls) <= 1
    /\ \A i \in 1..Len(resetCalls) :
          resetCalls[i].err # Nil =>
              /\ pc = "exited"
              /\ exited = "fatal"
              /\ exitCode # 0
              /\ printed = NoOutput
    /\ printed # NoOutput =>
          (Len(resetCalls) = 1 /\ resetCalls[1].err = Nil)

C7_Witness ==
    /\ Len(resetCalls) = 1
    /\ resetCalls[1].err # Nil
    /\ exited = "fatal"

\* C8: the human-readable line holds the source URL, and it holds a reset
\* identifier if and only if the result has exactly one target, whose
\* identifier it then is; with no target or with two or more the line is the
\* plain confirmation.
C8_TextLine ==
    printed.mode = "text" =>
        LET parts == printed.text
            n == Len(rinfo.Targets)
        IN /\ \E i \in 1..Len(parts) : parts[i] = cliCtx.args[1]
           /\ (\E i \in 1..Len(parts) : parts[i] \in ResetIDs) <=> (n = 1)
           /\ n = 1 => parts[Len(parts)] = rinfo.Targets[1].ResetID
           /\ n # 1 => parts = <<"Replication reset started for ", cliCtx.args[1]>>

C8_Witness ==
    /\ printed.mode = "text"
    /\ Len(rinfo.Targets) = 2
    /\ rinfo.Targets[1].ResetID # rinfo.Targets[2].ResetID

\* C9: the JSON output has status "success" and its per-target reset info is
\* what the remote call returned (same targets, same order, same reset
\* identifiers); rendering it leaves the message it was called on as it was
\* built.
C9_JSONOutput ==
    printed.mode = "json" =>
        /\ Field(printed.json, "status") = "success"
        /\ DecodedTargets(printed.json) = rinfo.Targets
        /\ msg = [Op |-> "status", URL |-> cliCtx.args[1],
                  ResyncTargetsInfo |-> rinfo, Status |-> "", TargetArn |-> ""]

C9_Witness ==
    /\ printed.mode = "json"
    /\ Len(rinfo.Targets) = 2
    /\ rinfo.Targets[1].ResetID # rinfo.Targets[2].ResetID

\* C10: the targetArn field of every printed message is the empty string,
\* although the non-empty value of --remote-bucket was passed to the remote
\* call.
C10_TargetArnEmpty ==
    printed # NoOutput =>
        /\ msg.TargetArn = ""
        /\ printed.mode = "json" => Field(printed.json, "targetArn") = ""
        /\ \A i \in 1..Len(printed.text) : printed.text[i] # cliCtx.remoteBucket
        /\ cliCtx.remoteBucket # ""
        /\ resetCalls[1].tgtArn = cliCtx.remoteBucket

C10_Witness ==
    /\ printed.mode = "json"
    /\ resetCalls[1].tgtArn = "arn:minio:replication::xxx:mybucket"
    /\ Field(printed.json, "targetArn") = ""

====
